---- MODULE Spec2Model ----
(***************************************************************************)
(* Model of the arena client: the Controller main loop (server.rs,         *)
(* controller.rs), the lobby (handler/lobby.rs), the game runner           *)
(* (handler/game.rs, handler/mod.rs) and the player drivers                *)
(* (handler/player.rs), with the engine subprocesses they own.             *)
(***************************************************************************)
EXTENDS Naturals, Integers, Sequences, FiniteSets, TLC

\* ------------------------------------------------------------------ bounds
MaxBots == 4        \* bot connections the acceptor delivers in one behaviour
MatchBots == 2      \* bot connections of a behaviour that plays one match
MaxSups == 2        \* supervisor connections the acceptor delivers
MatchSups == 1      \* supervisor connections during one match
MaxLoop == 1        \* largest game loop an engine observation carries
MaxQueue == 1       \* supervisor events waiting in the event channel
MaxGames == 2       \* game threads spawned in one behaviour
MaxPings == 2       \* ping frames the supervisors send in one behaviour
MaxChats == 2       \* chat messages a client sends in one match
MaxRequests == 2    \* non-terminal client requests a driver proxies in one behaviour

\* ------------------------------------------------------------------ values
None == "None"             \* an empty result slot, an unset reason
NoneOpt == <<>>            \* Option::None of a structured value
Some(x) == <<x>>           \* Option::Some
IsSome(o) == o # <<>>
Unwrap(o) == o[1]
BotIds == 1 .. MaxBots
SupIds == 1 .. MaxSups
GameIds == 1 .. MaxGames
Loops == 0 .. MaxLoop

\* sc2.rs: enum PlayerResult
PlayerResult == {"Victory", "Defeat", "Tie", "Crash", "SC2Crash", "Timeout"}


\* --------------------------------------------------------------------- races
\* a race token is the text of Player1Race / Player2Race, held as its characters
UpperCase == <<"A", "B", "C", "D", "E", "F", "G", "H", "I", "J", "K", "L", "M", "N",
               "O", "P", "Q", "R", "S", "T", "U", "V", "W", "X", "Y", "Z">>
LowerCase == <<"a", "b", "c", "d", "e", "f", "g", "h", "i", "j", "k", "l", "m", "n",
               "o", "p", "q", "r", "s", "t", "u", "v", "w", "x", "y", "z">>

\* str::to_lowercase on the characters a token is written with
ToLowerChar(c) ==
    IF \E k \in DOMAIN UpperCase : UpperCase[k] = c
    THEN LowerCase[CHOOSE k \in DOMAIN UpperCase : UpperCase[k] = c]
    ELSE c
ToLowercase(token) == [k \in DOMAIN token |-> ToLowerChar(token[k])]

\* config/race.rs:12-20  BotRace::from_str
FromStr(token) ==
    LET l == ToLowercase(token)
    IN CASE l \in {<<"p">>, <<"p", "r", "o", "t", "o", "s", "s">>,
                 <<"r", "a", "c", "e", ".", "p", "r", "o", "t", "o", "s", "s">>, <<"3">>} -> "Protoss"
         [] l \in {<<"t">>, <<"t", "e", "r", "r", "a", "n">>,
                 <<"r", "a", "c", "e", ".", "t", "e", "r", "r", "a", "n">>, <<"1">>} -> "Terran"
         [] l \in {<<"r">>, <<"r", "a", "n", "d", "o", "m">>,
                 <<"r", "a", "c", "e", ".", "r", "a", "n", "d", "o", "m">>, <<"4">>} -> "Random"
         [] l \in {<<"z">>, <<"z", "e", "r", "g">>,
                 <<"r", "a", "c", "e", ".", "z", "e", "r", "g">>, <<"2">>} -> "Zerg"
         [] OTHER -> "NoRace"

\* BotRace::to_race without the NoRace arm folded into Random
ToRaceKeepsNoRace(botrace) == botrace

\* config/race.rs:21-29  BotRace::to_race
ToRace(botrace) == IF botrace = "NoRace" THEN "Random" ELSE botrace

\* config/mod.rs:98-112  player1_bot_race / player2_bot_race
BotRaceOf(token_opt) ==
    IF IsSome(token_opt) THEN Some(ToRace(FromStr(Unwrap(token_opt)))) ELSE NoneOpt

\* the tokens a supervisor writes: every accepted spelling in several casings, and
\* texts that are none of them
ProtossTokens ==
    {<<"p">>, <<"P">>, <<"p", "r", "o", "t", "o", "s", "s">>,
     <<"P", "r", "o", "t", "o", "s", "s">>, <<"P", "R", "O", "T", "O", "S", "S">>,
     <<"r", "a", "c", "e", ".", "p", "r", "o", "t", "o", "s", "s">>,
     <<"R", "a", "c", "e", ".", "P", "r", "o", "t", "o", "s", "s">>, <<"3">>}
TerranTokens ==
    {<<"t">>, <<"T">>, <<"t", "e", "r", "r", "a", "n">>,
     <<"T", "e", "r", "r", "a", "n">>, <<"T", "E", "R", "R", "A", "N">>,
     <<"r", "a", "c", "e", ".", "t", "e", "r", "r", "a", "n">>,
     <<"R", "a", "c", "e", ".", "T", "e", "r", "r", "a", "n">>, <<"1">>}
ZergTokens ==
    {<<"z">>, <<"Z">>, <<"z", "e", "r", "g">>, <<"Z", "e", "r", "g">>,
     <<"Z", "E", "R", "G">>, <<"r", "a", "c", "e", ".", "z", "e", "r", "g">>,
     <<"R", "a", "c", "e", ".", "Z", "e", "r", "g">>, <<"2">>}
RandomTokens ==
    {<<"r">>, <<"R">>, <<"r", "a", "n", "d", "o", "m">>,
     <<"R", "a", "n", "d", "o", "m">>, <<"R", "A", "N", "D", "O", "M">>,
     <<"r", "a", "c", "e", ".", "r", "a", "n", "d", "o", "m">>,
     <<"R", "a", "c", "e", ".", "R", "a", "n", "d", "o", "m">>, <<"4">>}
OtherTokens ==
    {<<>>, <<"x">>, <<"0">>, <<"5">>, <<"n", "o", "r", "a", "c", "e">>,
     <<"p", "r", "o", "t", "o", "s">>, <<" ", "p">>, <<"r", "a", "c", "e", ".">>,
     <<"z", "z">>}
RaceTokens == ProtossTokens \cup TerranTokens \cup ZergTokens \cup RandomTokens \cup OtherTokens

\* sc2_proto common.Race as its enum numbers, and sc2.rs:16-35 Race::from_proto
\* (NoRace panics: None here) and Race::to_proto
ProtoRaces == 0 .. 4
FromProto(n) ==
    CASE n = 1 -> "Terran" [] n = 2 -> "Zerg" [] n = 3 -> "Protoss" [] n = 4 -> "Random"
      [] OTHER -> None
ToProto(race) ==
    CASE race = "Terran" -> 1 [] race = "Zerg" -> 2 [] race = "Protoss" -> 3
      [] race = "Random" -> 4

\* config/mod.rs: the Config fields the modelled code reads
BotNames == {"A", "B"}

RaceTokenOpts == {NoneOpt} \cup {Some(t) : t \in RaceTokens}

\* the second slot's token is drawn from three cases: absent, accepted, not accepted
Player2TokenOpts == {NoneOpt, Some(<<"T">>), Some(<<"x">>)}

Configs ==
    [player1 : BotNames, player2 : BotNames, replay_path : {"", "replay"},
     light_mode : BOOLEAN, max_game_time : {MaxLoop - 1}, disable_debug : BOOLEAN,
     validate_race : BOOLEAN, player1_race : RaceTokenOpts, player2_race : Player2TokenOpts]

\* a config that leaves the races to the clients
NoRaces(cfg) ==
    ~cfg.validate_race /\ cfg.player1_race = NoneOpt /\ cfg.player2_race = NoneOpt

\* Vec::insert(0, x), Vec::push(x), Vec::remove(i)
InsertFront(s, x) == <<x>> \o s
RemoveAt(s, i) == [k \in 1 .. (Len(s) - 1) |-> IF k < i THEN s[k] ELSE s[k + 1]]
Last(s) == s[Len(s)]
Front(s) == SubSeq(s, 1, Len(s) - 1)

\* HashMap::insert on a map held as a function
MapInsert(m, k, v) == [x \in (DOMAIN m) \cup {k} |-> IF x = k THEN v ELSE m[x]]
EmptyMap == [x \in {} |-> None]

VARIABLES
    ctrl_pc,            \* main loop of RustServer::run: "running", "stopped", "panicked"
    supervisor,         \* Controller.supervisor / super_recv: 0 = None, else the supervisor bound
    nsups,              \* supervisor connections accepted so far
    listener,           \* per supervisor: state of its create_supervisor_listener thread
    super_q,            \* the sup_send / sup_recv channel of RustServer::run
    asked_quit,         \* supervisors that sent Reset or Quit (history)
    config,             \* Controller.config
    light_mode,         \* Controller.light_mode
    clients,            \* Controller.clients (the playlist)
    connected_clients,  \* Controller.connected_clients
    nbots,              \* bot connections accepted so far
    lobby,              \* Controller.lobby
    game,               \* Controller.game: 0 = None, else the game whose Handle is held
    ngames,             \* games spawned so far
    runner,             \* per game: the Game::run thread and its channels
    driver,             \* per bot connection: its Player::run task
    engine,             \* per bot connection: its engine subprocess
    joined,             \* per supervisor: join_game requests taken from the playlist (history)
    reports,            \* result reports written to the supervisor socket (history)
    pings,              \* payloads of the ping frames the listeners read (history)
    pongs,              \* payloads of the pong frames written to a supervisor (history)
    sup_broken,         \* supervisors whose socket has vanished: a write on it fails
    acceptor,           \* the proxy::run task: "running" or "ended"
    handshake           \* history: the lobby last started and what crossed its engine sockets

vars == <<ctrl_pc, supervisor, nsups, listener, super_q, asked_quit, config, light_mode,
          clients, connected_clients, nbots, lobby, game, ngames, runner, driver,
          engine, joined, reports, pings, pongs, sup_broken, acceptor, handshake>>

wireVars == <<pings, pongs, sup_broken, acceptor, handshake>>

\* no lobby has been started
NoHandshake == [config |-> NoneOpt, players |-> <<>>, log |-> <<>>, to_clients |-> {}]

ctrlVars == <<ctrl_pc, supervisor, config, light_mode, clients, connected_clients,
              lobby, game>>
gameVars == <<ngames, runner, driver>>

\* handler/player.rs:515-519  clear_request; Default::default() of Player.request
EmptyRequest == [kind |-> None, id |-> NoneOpt]

\* what a driver has proxied so far: Player.request, and as history the number of
\* requests read, the last one as the client sent it, the last response written to the
\* client and the requests forwarded to the engine
\* the byte strings of the last pass of the proxy loop, each held as the encoding it
\* is written in: the request read from the client and as written to the engine, the
\* response read from the engine and as written to the client
NoRaw == [from_client |-> None, to_engine |-> None, from_engine |-> None,
          to_client |-> None]

NoProxy ==
    [request |-> EmptyRequest, nreq |-> 0, last_req |-> EmptyRequest,
     to_client |-> NoneOpt, to_engine |-> <<>>,
     info_received |-> <<>>, info_forwarded |-> <<>>, raw |-> NoRaw]

\* handler/player.rs:64,302-303  Player.frame_time and the local frame_time of run,
\* each an f32 held as "zero", "pos", "inf" or "NaN". acc is the local as the next
\* request will find it after line 313: the pass that relays a response (and sets
\* start_timer) draws the time the client takes to send its next request; the first
\* request of a match finds start_timer false and adds nothing.
NoTiming == [acc |-> "zero", frame_time |-> "zero"]

\* a player's engine socket (Player.sc2_ws) as history: the requests written to it
\* whose response has not been read, and the most that number has been
NoWire == [pending |-> 0, peak |-> 0]

NoDriver ==
    [pc |-> "none", game |-> 0, idx |-> 0, player_id |-> 0, game_loops |-> 0,
     how |-> None, saved |-> FALSE, proxy |-> NoProxy,
     tags |-> {}, chat |-> <<>>, timing |-> NoTiming, wire |-> NoWire]
NoRunner ==
    [pc |-> "none", players |-> <<>>, config |-> NoneOpt,
     player_results |-> <<None, None>>, game_loops |-> 0,
     rx |-> <<>>, from_sv |-> 0, result_ch |-> <<>>, log |-> <<>>,
     tags |-> <<<<>>, <<>>>>]

\* Controller::new, RustServer::run before the first tick
Init ==
    /\ ctrl_pc = "running"
    /\ supervisor = 0
    /\ nsups = 0
    /\ listener = [s \in SupIds |-> "none"]
    /\ super_q = <<>>
    /\ asked_quit = {}
    /\ config = NoneOpt
    /\ light_mode = FALSE
    /\ clients = <<>>
    /\ connected_clients = 0
    /\ nbots = 0
    /\ lobby = NoneOpt
    /\ game = 0
    /\ ngames = 0
    /\ runner = [g \in GameIds |-> NoRunner]
    /\ driver = [c \in BotIds |-> NoDriver]
    /\ engine = [c \in BotIds |-> "none"]
    /\ joined = [s \in SupIds |-> 0]
    /\ reports = <<>>
    /\ pings = <<>>
    /\ pongs = <<>>
    /\ sup_broken = {}
    /\ handshake = NoHandshake
    /\ acceptor = "running"

\* ---------------------------------------------------------------- acceptor
\* server.rs:56-61  a Controller connection: add_supervisor, listener thread started
SupervisorConnect ==
    /\ ctrl_pc = "running"
    /\ acceptor = "running"
    /\ nsups < MaxSups
    /\ nsups' = nsups + 1
    /\ supervisor' = nsups + 1
    /\ listener' = [listener EXCEPT ![nsups + 1] = "running"]
    /\ UNCHANGED <<ctrl_pc, super_q, asked_quit, config, light_mode, clients,
                   connected_clients, nbots, lobby, game, gameVars, engine, joined,
                   reports,
                   wireVars>>

\* controller.rs:155-199  Controller::add_client, with connected_clients deciding the slot
AddClient(c, cfg) ==
    IF connected_clients = 0
    THEN Append(clients, [id |-> c, name |-> cfg.player1, num |-> 1,
                          race |-> BotRaceOf(cfg.player1_race)])
    ELSE Append(clients, [id |-> c, name |-> cfg.player2, num |-> 2,
                          race |-> BotRaceOf(cfg.player2_race)])

\* controller.rs:129-140  send_message on a supervisor socket that has vanished: the
\* write fails and expect() unwinds the main loop
WriteFails == supervisor \in sup_broken

\* server.rs:47-55  a Bot connection; debug_assert!(clients.len() < 2) exists in debug
\* builds only, so either build's outcome is possible; the enrolled bot is announced
\* to the supervisor
BotConnect(dbg) ==
    /\ ctrl_pc = "running"
    /\ acceptor = "running"
    /\ nbots < MaxBots
    /\ nbots' = nbots + 1
    /\ IF supervisor = 0
       THEN UNCHANGED <<ctrl_pc, clients, connected_clients>>
       ELSE IF config = NoneOpt \/ (dbg /\ Len(clients) >= 2)
       THEN /\ ctrl_pc' = "panicked"
            /\ UNCHANGED <<clients, connected_clients>>
       ELSE /\ clients' = AddClient(nbots + 1, Unwrap(config))
            /\ connected_clients' = connected_clients + 1
            /\ ctrl_pc' = IF WriteFails THEN "panicked" ELSE ctrl_pc
    /\ UNCHANGED <<supervisor, nsups, listener, super_q, asked_quit, config, light_mode,
                   lobby, game, gameVars, engine, joined, reports,
                   wireVars>>

\* ------------------------------------------------------ supervisor listener
\* the frames a supervisor sends: the literal texts, a text containing "Map", a ping
Payloads == {<<0>>, <<1>>}

SupervisorFrames ==
    [kind : {"Reset", "Quit", "Received"}, config : {NoneOpt}, payload : {<<>>}]
        \cup [kind : {"Ping"}, config : {NoneOpt}, payload : Payloads]
        \cup [kind : {"Map"}, config : {Some(c) : c \in Configs}, payload : {<<>>}]

\* controller.rs:561-590  the event create_supervisor_listener emits for a frame
SupervisorAction(frame) ==
    CASE frame.kind = "Reset" -> [type |-> "Quit", config |-> NoneOpt]
      [] frame.kind = "Quit" -> [type |-> "ForceQuit", config |-> NoneOpt]
      [] frame.kind = "Received" -> [type |-> "Received", config |-> NoneOpt]
      [] frame.kind = "Ping" -> [type |-> "Ping", config |-> NoneOpt]
      [] frame.kind = "Map" -> [type |-> "Config", config |-> frame.config]

\* controller.rs:558-590  one frame read by the listener of supervisor s
SupervisorSend(s, frame) ==
    /\ listener[s] = "running"
    /\ s \notin sup_broken
    /\ Len(super_q) < MaxQueue
    /\ frame.kind = "Ping" => Len(pings) < MaxPings
    /\ pings' = IF frame.kind = "Ping" THEN Append(pings, frame.payload) ELSE pings
    /\ super_q' = Append(super_q, SupervisorAction(frame))
    /\ listener' = [listener EXCEPT ![s] = IF frame.kind = "Reset" THEN "ended" ELSE @]
    /\ asked_quit' = IF frame.kind \in {"Reset", "Quit"}
                      THEN asked_quit \cup {s} ELSE asked_quit
    /\ UNCHANGED <<ctrlVars, nsups, nbots, gameVars, engine, joined, reports, pongs,
                   sup_broken, acceptor, handshake>>

\* the supervisor's socket vanishes (peer reset): from now on a write on it fails and
\* the listener's next read returns an error
SupervisorVanish(s) ==
    /\ listener[s] # "none"
    /\ s \notin sup_broken
    /\ sup_broken' = sup_broken \cup {s}
    /\ UNCHANGED <<ctrlVars, nsups, listener, super_q, asked_quit, nbots, gameVars,
                   engine, joined, reports, pings, pongs, acceptor, handshake>>

\* controller.rs:591-612  the listener's read fails: NoDataAvailable ends the thread
\* silently, ConnectionAborted and ConnectionReset emit ForceQuit and end it, any other
\* error emits ForceQuit and the loop reads again
ReadErrors == {"NoDataAvailable", "ConnectionAborted", "ConnectionReset", "Other"}

ListenerError(s, kind) ==
    /\ listener[s] = "running"
    /\ s \in sup_broken
    /\ Len(super_q) < MaxQueue
    /\ super_q' = IF kind = "NoDataAvailable"
                  THEN super_q
                  ELSE Append(super_q, [type |-> "ForceQuit", config |-> NoneOpt])
    /\ listener' = [listener EXCEPT ![s] = IF kind = "Other" THEN @ ELSE "ended"]
    /\ UNCHANGED <<ctrlVars, nsups, asked_quit, nbots, gameVars, engine, joined,
                   reports, wireVars>>

\* proxy.rs:110-129  get_connection fails (accept error, or a connection whose opening
\* handshake fails): run leaves its loop and drops the channel to the main loop
AcceptFailures == {"AcceptError", "ShutdownRequest"}

AcceptorFails(err) ==
    /\ acceptor = "running"
    /\ acceptor' = "ended"
    /\ UNCHANGED <<ctrlVars, nsups, listener, super_q, asked_quit, nbots, gameVars,
                   engine, joined, reports, pings, pongs, sup_broken, handshake>>

\* server.rs:45,64  proxy_receiver.try_recv() on the dropped channel: Disconnected
\* breaks the main loop
ProxyDisconnected ==
    /\ ctrl_pc = "running"
    /\ acceptor = "ended"
    /\ ctrl_pc' = "stopped"
    /\ UNCHANGED <<supervisor, config, light_mode, clients, connected_clients, lobby,
                   game, nsups, listener, super_q, asked_quit, nbots, gameVars, engine,
                   joined, reports, wireVars>>

\* -------------------------------------------------------------------- lobby
\* handler/lobby.rs:30-36  GameLobby::new
NewLobby(cfg) == [config |-> cfg, players |-> <<>>, player_handles |-> <<>>]

\* handler/lobby.rs:49-75  GameLobby::join: must_join (light mode) builds the player in
\* place, otherwise its start is left to a worker handle; PlayerNum picks front or back
LobbyJoin(lob, p, must_join, num) ==
    IF must_join
    THEN [lob EXCEPT !.players = IF num = 1 THEN InsertFront(@, p) ELSE Append(@, p)]
    ELSE [lob EXCEPT !.player_handles = IF num = 1 THEN InsertFront(@, p) ELSE Append(@, p)]

\* handler/lobby.rs:37-42  GameLobby::join_player_handles
RECURSIVE JoinPlayerHandles(_)
JoinPlayerHandles(lob) ==
    IF lob.player_handles = <<>>
    THEN lob
    ELSE JoinPlayerHandles([lob EXCEPT !.player_handles = Front(@),
                                       !.players = InsertFront(@, Last(lob.player_handles))])

\* handler/player.rs:482-497  PlayerData::from_join_request: the race of the client's
\* join request, None when Race::from_proto panics on it
JoinRequests == [race : ProtoRaces]
TerranJoin == [race |-> 1]
FromJoinRequest(req) == FromProto(req.race)

\* the override applied whether or not validate_race is set
JoinRaceAlways(cfg, req_race, client_race) ==
    IF IsSome(client_race) THEN Unwrap(client_race) ELSE req_race

\* handler/lobby.rs:58-61  GameLobby::join: the enrolled race replaces the requested
\* one when the lobby's config validates races and the supervisor supplied one
JoinRace(cfg, req_race, client_race) ==
    IF cfg.validate_race /\ IsSome(client_race) THEN Unwrap(client_race) ELSE req_race

\* what the engines answer during GameLobby::start: create-game on player 1's engine,
\* then one join-game response per engine, each carrying the player id the engine assigns
Handshakes ==
    [outcome : {"ok"}, at : {0}, ids : {<<1, 2>>, <<2, 1>>}]
        \cup [outcome : {"create_closed", "create_error"}, at : {1}, ids : {<<1, 2>>}]
        \cup [outcome : {"join_closed", "join_error"}, at : {1, 2}, ids : {<<1, 2>>}]

\* handler/player.rs:231-238  sc2_recv awaits the engine's next frame without a
\* timeout: an engine that keeps its socket open and sends nothing is waited for
SilentHandshakes ==
    [outcome : {"create_silent"}, at : {1}, ids : {<<1, 2>>}]
        \cup [outcome : {"join_silent"}, at : {1, 2}, ids : {<<1, 2>>}]

NoResponse(hs) == hs.outcome \in {"create_silent", "join_silent"}

\* handler/lobby.rs:192-199  GameLobby::start: Some(Game) only if create_game and
\* join_all_game both return Some
StartSucceeds(hs) == hs.outcome = "ok"

\* one request written to, or response read from, the engine of the player at lobby
\* index at (1-based); a join request carries the race it asks for, a response
\* whether it has an error
Ev(ev, at) == [ev |-> ev, at |-> at, race |-> NoneOpt, error |-> FALSE]
ErrorResponse(ev, at) == [Ev(ev, at) EXCEPT !.error = TRUE]

\* handler/lobby.rs:130-148  proto_join_game_participant for the player at index k
JoinReq(lob, k) ==
    [Ev("join_req", k) EXCEPT !.race = Some(ToProto(lob.players[k].race))]

\* handler/lobby.rs:102-127  create_game: the request goes to players[0] and its
\* response is awaited; a closed socket yields no response
CreateGame(hs) ==
    IF hs.outcome \in {"create_closed", "create_silent"}
    THEN <<Ev("create_req", 1)>>
    ELSE IF hs.outcome = "create_error"
    THEN <<Ev("create_req", 1), ErrorResponse("create_resp", 1)>>
    ELSE <<Ev("create_req", 1), Ev("create_resp", 1)>>

\* join_all_game with the response loop running inside the request loop
JoinAllGameInterleaved(lob, hs) ==
    LET n == Len(lob.players)
        stop == IF hs.outcome = "ok" THEN n ELSE hs.at
    IN IF stop = 0 THEN <<>>
       ELSE IF stop = 1
            THEN <<JoinReq(lob, 1)>>
                     \o (IF hs.outcome \in {"join_closed", "join_silent"} THEN <<>>
                         ELSE <<Ev("join_resp", 1)>>)
            ELSE <<JoinReq(lob, 1), Ev("join_resp", 1), JoinReq(lob, 2)>>
                     \o (IF hs.outcome \in {"join_closed", "join_silent"} THEN <<>>
                         ELSE <<Ev("join_resp", 2)>>)

\* handler/lobby.rs:153-186  join_all_game: one request per player in lobby order,
\* then the responses in lobby order until one is missing or carries an error
JoinAllGame(lob, hs) ==
    LET n == Len(lob.players)
        nresp == IF hs.outcome = "ok" THEN n
                 ELSE IF hs.outcome \in {"join_closed", "join_silent"}
                      THEN hs.at - 1 ELSE hs.at
    IN [k \in 1 .. n |-> JoinReq(lob, k)]
          \o [k \in 1 .. nresp |-> IF hs.outcome = "join_error" /\ k = hs.at
                                    THEN ErrorResponse("join_resp", k)
                                    ELSE Ev("join_resp", k)]

\* GameLobby::start with create_game's outcome ignored
LobbyStartUnchecked(lob, hs) ==
    CreateGame(hs) \o (IF hs.outcome \in {"create_closed", "create_silent"}
                       THEN <<>> ELSE [k \in 1 .. Len(lob.players) |-> JoinReq(lob, k)])

\* handler/lobby.rs:192-199  GameLobby::start: join_all_game runs only after
\* create_game returned Some
LobbyStart(lob, hs) ==
    IF hs.outcome \in {"create_closed", "create_error", "create_silent"}
    THEN CreateGame(hs)
    ELSE CreateGame(hs) \o JoinAllGame(lob, hs)

\* handler/lobby.rs:166-181  the lobby indices of the clients join_all_game has
\* answered: each response read without an error is passed to its client before the
\* next response is read
ClientRespond(log) ==
    {log[k].at : k \in {j \in DOMAIN log : log[j].ev = "join_resp" /\ ~log[j].error}}

\* handler/player.rs:223-229  sc2_request: one more request is on the socket
Sc2Request(w) ==
    [pending |-> w.pending + 1,
     peak |-> IF w.pending + 1 > w.peak THEN w.pending + 1 ELSE w.peak]

\* handler/player.rs:231-247  sc2_recv: the response to the oldest request is read
Sc2Recv(w) == [w EXCEPT !.pending = @ - 1]

\* sc2_query returning as soon as the request is written
Sc2QueryNoRecv(w) == Sc2Request(w)

\* handler/player.rs:253-260  sc2_query / sc2_query_raw: the request is written and
\* the response awaited; a socket that closes instead leaves nothing to wait for
Sc2Query(w) == Sc2Recv(Sc2Request(w))

\* the socket of the player at lobby index k after the first n events of a lobby start
RECURSIVE WireOf(_, _, _)
WireOf(log, k, n) ==
    IF n = 0 THEN NoWire
    ELSE LET w == WireOf(log, k, n - 1)
         IN IF log[n].at # k THEN w
            ELSE IF log[n].ev \in {"create_req", "join_req"} THEN Sc2Request(w)
            ELSE Sc2Recv(w)

\* handler/mod.rs:87-107 spawn_game, handler/game.rs:100-112: fresh channels, empty
\* result slots, one driver task per player in lobby order
SpawnedRunner(lob) ==
    [pc |-> "loop", players |-> lob.players, config |-> Some(lob.config),
     player_results |-> <<None, None>>, game_loops |-> 0,
     rx |-> <<>>, from_sv |-> 0, result_ch |-> <<>>, log |-> <<>>,
     tags |-> <<<<>>, <<>>>>]

SpawnedDrivers(lob, g, ids, log) ==
    [c \in BotIds |->
        IF \E k \in 1 .. Len(lob.players) : lob.players[k].client = c
        THEN LET k == CHOOSE k \in 1 .. Len(lob.players) : lob.players[k].client = c
             IN [pc |-> "run", game |-> g, idx |-> k, player_id |-> ids[k],
                 game_loops |-> 0, how |-> None, saved |-> FALSE, proxy |-> NoProxy,
                 tags |-> {}, chat |-> <<>>, timing |-> NoTiming,
                 wire |-> WireOf(log, k, Len(log))]
        ELSE driver[c]]

\* controller.rs:275-279  the PlayerNum of a client, from its name and the current config
PlayerNumOf(name, cfg) ==
    IF name = cfg.player1 THEN 1 ELSE IF name = cfg.player2 THEN 2 ELSE 0

\* controller.rs:262-306  Controller::client_join_game for playlist entry i, with the
\* engines' handshake answers hs when this join completes the lobby
ClientJoinGame(i, hs, req) ==
    /\ ctrl_pc = "running"
    /\ i \in 1 .. Len(clients)
    /\ LET cl == clients[i]
           num == PlayerNumOf(cl.name, Unwrap(config))
           cfg == IF IsSome(lobby) THEN Unwrap(lobby).config ELSE Unwrap(config)
           p == [client |-> cl.id, name |-> cl.name,
                 race |-> JoinRace(cfg, FromJoinRequest(req), cl.race),
                 enrolled |-> cl.num, enrolled_race |-> cl.race, join_race |-> req.race]
       IN /\ clients' = RemoveAt(clients, i)
          /\ IF num = 0 \/ FromJoinRequest(req) = None
             THEN /\ ctrl_pc' = "panicked"
                  /\ UNCHANGED <<lobby, game, gameVars, engine, joined, handshake>>
             ELSE /\ ctrl_pc' = IF IsSome(lobby) /\ NoResponse(hs)
                                THEN "blocked" ELSE ctrl_pc
                  /\ engine' = [engine EXCEPT ![cl.id] = "running"]
                  /\ joined' = [s \in SupIds |-> IF s = supervisor THEN joined[s] + 1
                                                  ELSE joined[s]]
                  /\ IF IsSome(lobby)
                     THEN LET lob == JoinPlayerHandles(
                                        LobbyJoin(Unwrap(lobby), p, light_mode, num))
                          IN /\ lobby' = NoneOpt
                             /\ handshake' = [config |-> Some(lob.config),
                                              players |-> lob.players,
                                              log |-> LobbyStart(lob, hs),
                                              to_clients |->
                                                  ClientRespond(LobbyStart(lob, hs))]
                             /\ IF StartSucceeds(hs)
                                THEN /\ ngames < MaxGames
                                     /\ ngames' = ngames + 1
                                     /\ game' = ngames + 1
                                     /\ runner' = [runner EXCEPT
                                                     ![ngames + 1] = SpawnedRunner(lob)]
                                     /\ driver' = SpawnedDrivers(lob, ngames + 1, hs.ids,
                                                                 LobbyStart(lob, hs))
                                ELSE UNCHANGED <<game, gameVars>>
                     ELSE /\ hs.outcome = "ok" /\ hs.ids = <<1, 2>>
                          /\ lobby' = Some(LobbyJoin(NewLobby(Unwrap(config)), p,
                                                     light_mode, num))
                          /\ UNCHANGED <<game, gameVars, handshake>>
    /\ UNCHANGED <<supervisor, nsups, listener, super_q, asked_quit, config, light_mode,
                   connected_clients, nbots, reports,
                   pings, pongs, sup_broken, acceptor>>

\* controller.rs:309-396  update_clients for a frame that is no join_game: a quit is
\* answered and the client dropped, a ping answered, anything else (or a closed socket)
\* drops the client
PlaylistMessage(i, msg) ==
    /\ ctrl_pc = "running"
    /\ i \in 1 .. Len(clients)
    /\ clients' = IF msg = "ping" THEN clients ELSE RemoveAt(clients, i)
    /\ UNCHANGED <<ctrl_pc, supervisor, nsups, listener, super_q, asked_quit, config,
                   light_mode, connected_clients, nbots, lobby, game, gameVars, engine,
                   joined, reports,
                   wireVars>>

\* ------------------------------------------------------------- game runner
\* handler/mod.rs:27-39  the Handle (result_rx, msg_tx) of game g is alive while the
\* Controller holds it; RustServer::run's task owns the Controller
HandleHeld(g) == ctrl_pc = "running" /\ game = g

\* the receivers of Game::run (rx, from_sv) live until run returns or unwinds
RunnerAlive(g) == runner[g].pc \in {"loop", "join"}

\* the driver task has ended: returned Some(self), returned None, or panicked
Terminated(c) == driver[c].pc \in {"exited", "silent", "panicked"}

\* Game::process_msg with GameOver writing every slot, filled or not
ProcessMsgOverwrites(msg, pr) ==
    CASE msg.content = "GameOver" -> [i \in 1 .. 2 |-> msg.results[i]]
      [] msg.content \in {"LeftGame", "QuitBeforeLeave"} ->
            [pr EXCEPT ![msg.player_index] = "Defeat"]
      [] msg.content = "SC2UnexpectedConnectionClose" ->
            [pr EXCEPT ![msg.player_index] = "SC2Crash"]
      [] msg.content = "UnexpectedConnectionClose" ->
            IF \E idx \in 1 .. 2 : idx # msg.player_index /\ pr[idx] = "Crash"
            THEN [pr EXCEPT ![msg.player_index] = "Victory"]
            ELSE [pr EXCEPT ![msg.player_index] = "Crash"]

\* handler/game.rs:42-90  Game::process_msg on the result slots
ProcessMsg(msg, pr) ==
    CASE msg.content = "GameOver" ->
            [i \in 1 .. 2 |-> IF pr[i] = None THEN msg.results[i] ELSE pr[i]]
      [] msg.content \in {"LeftGame", "QuitBeforeLeave"} ->
            [pr EXCEPT ![msg.player_index] = "Defeat"]
      [] msg.content = "SC2UnexpectedConnectionClose" ->
            [pr EXCEPT ![msg.player_index] = "SC2Crash"]
      [] msg.content = "UnexpectedConnectionClose" ->
            IF \E idx \in 1 .. 2 : idx # msg.player_index /\ pr[idx] = "Crash"
            THEN [pr EXCEPT ![msg.player_index] = "Victory"]
            ELSE [pr EXCEPT ![msg.player_index] = "Crash"]

\* handler/game.rs:114-122  the select! arm recv(rx) with a message
RunnerRecv(g) ==
    /\ runner[g].pc = "loop"
    /\ runner[g].rx # <<>>
    /\ LET msg == Head(runner[g].rx)
           pr == ProcessMsg(msg, runner[g].player_results)
       IN runner' = [runner EXCEPT
              ![g].rx = Tail(@),
              ![g].player_results = pr,
              ![g].game_loops = IF msg.content = "GameOver" THEN msg.game_loops ELSE @,
              ![g].tags = IF msg.content = "GameOver"
                          THEN [@ EXCEPT ![msg.player_index] = msg.tags] ELSE @,
              ![g].log = Append(@, [idx |-> msg.player_index, content |-> msg.content,
                                    why |-> msg.why, game_loops |-> msg.game_loops]),
              ![g].pc = IF \E i \in 1 .. 2 : pr[i] = None THEN "loop" ELSE "join"]
    /\ UNCHANGED <<ctrlVars, nsups, listener, super_q, asked_quit, nbots, ngames, driver,
                   engine, joined, reports,
                   wireVars>>

\* handler/game.rs:123-138  the select! arm recv(from_sv) with Quit: the QuitRequest
\* result is sent, then unimplemented!() unwinds the thread
RunnerQuit(g) ==
    /\ runner[g].pc = "loop"
    /\ runner[g].from_sv > 0
    /\ runner' = [runner EXCEPT
           ![g].from_sv = @ - 1,
           ![g].result_ch = IF HandleHeld(g)
                            THEN Append(@, [end_reason |-> "QuitRequest",
                                            player_results |-> <<>>, game_loops |-> 0])
                            ELSE @,
           ![g].pc = "panicked"]
    /\ UNCHANGED <<ctrlVars, nsups, listener, super_q, asked_quit, nbots, ngames, driver,
                   engine, joined, reports,
                   wireVars>>

\* handler/game.rs:121,139  a select! arm on a disconnected channel: every driver has
\* dropped its sender with rx empty, or the Handle was dropped with from_sv empty
RunnerChannelClosed(g) ==
    /\ runner[g].pc = "loop"
    /\ (runner[g].rx = <<>> /\ \A k \in 1 .. 2 : Terminated(runner[g].players[k].client))
         \/ (runner[g].from_sv = 0 /\ ~HandleHeld(g))
    /\ runner' = [runner EXCEPT ![g].pc = "panicked"]
    /\ UNCHANGED <<ctrlVars, nsups, listener, super_q, asked_quit, nbots, ngames, driver,
                   engine, joined, reports,
                   wireVars>>

\* handler/game.rs:150-175  the driver handles are joined in order, then the Normal
\* result is sent; a panicked driver or a dropped result receiver unwinds the thread
RunnerJoin(g) ==
    /\ runner[g].pc = "join"
    /\ LET d1 == runner[g].players[1].client
           d2 == runner[g].players[2].client
       IN /\ driver[d1].pc = "panicked" \/ (Terminated(d1) /\ Terminated(d2))
          /\ runner' = [runner EXCEPT
                 ![g].pc = IF driver[d1].pc = "panicked" \/ driver[d2].pc = "panicked"
                              \/ ~HandleHeld(g)
                           THEN "panicked" ELSE "done",
                 ![g].result_ch =
                           IF driver[d1].pc = "panicked" \/ driver[d2].pc = "panicked"
                              \/ ~HandleHeld(g)
                           THEN @
                           ELSE Append(@, [end_reason |-> "Normal",
                                           player_results |-> runner[g].player_results,
                                           game_loops |-> runner[g].game_loops])]
    /\ UNCHANGED <<ctrlVars, nsups, listener, super_q, asked_quit, nbots, ngames, driver,
                   engine, joined, reports,
                   wireVars>>

\* ------------------------------------------------------------ player driver
\* the Config clone Player::run was given (handler/game.rs:109)
DriverConfig(c) == Unwrap(runner[driver[c].game].config)

\* handler/player.rs:262-265  save_replay queries the engine unless the path is empty
SaveReplayRequested(path) == path # ""

\* handler/messaging.rs:48-55  ChannelToGame::send: the message is queued for the
\* runner; with the runner's receiver gone, expect() unwinds the driver
\* frame_time is Player.frame_time as the path leaves it (a GameOver carries it);
\* tags are carried by a GameOver only
ToGame(c, content, results, loops, why) ==
    [player_index |-> driver[c].idx, content |-> content, results |-> results,
     game_loops |-> loops, why |-> why,
     tags |-> <<>>, frame_time |-> driver[c].timing.frame_time]

\* handler/player.rs:413,432,452  self.tags.iter().cloned().collect(): a HashSet is
\* iterated in an order its hasher decides, so any order of its elements may result
TagOrders(tags) ==
    {tv \in [1 .. Cardinality(tags) -> tags] :
        \A a, b \in DOMAIN tv : a # b => tv[a] # tv[b]}

\* f32 division of the accumulated frame time by a loop count
Div(acc, loops) ==
    IF loops = 0
    THEN IF acc = "zero" THEN "NaN" ELSE "inf"
    ELSE acc

\* handler/player.rs:379-383,391-395,421-425  a NaN quotient is replaced by 0
NanToZero(x) == IF x = "NaN" THEN "zero" ELSE x

\* the time between a response and the next request, in clock ticks
Elapsed == {0, 1}

\* handler/player.rs:311-313,373-374  frame_time += start_time.elapsed() for the
\* request that follows a relayed response
Accumulate(c, elapsed) == IF elapsed > 0 THEN "pos" ELSE driver[c].timing.acc

\* a GameOver with the tags in one of the set's orders and the frame time given
GameOver(c, results, loops, why, tv, ft) ==
    [ToGame(c, "GameOver", results, loops, why) EXCEPT !.tags = tv, !.frame_time = ft]

\* the endings reached after the pass's request was forwarded to the engine
QueriedEndings == {"engine_closed", "engine_quit", "game_over", "max_time"}

\* handler/player.rs:262-268  save_replay queries the engine when it is asked to save
SaveReplay(w, saved) == IF saved THEN Sc2Query(w) ELSE w

\* a terminal path of Player::run up to and including its gamec.send
DriverSend(c, msg, saved) ==
    LET g == driver[c].game
    IN /\ driver' = [driver EXCEPT
              ![c].pc = IF RunnerAlive(g) THEN "closing" ELSE "panicked",
              ![c].how = msg.why,
              ![c].saved = saved,
              ![c].game_loops = msg.game_loops,
              ![c].timing.frame_time = msg.frame_time,
              ![c].wire = SaveReplay(IF msg.why \in QueriedEndings
                                     THEN Sc2Query(@) ELSE @, saved)]
       /\ runner' = IF RunnerAlive(g)
                    THEN [runner EXCEPT ![g].rx = Append(@, msg)]
                    ELSE runner

\* handler/player.rs:311,457  the client socket closes or the per-frame timeout elapses
DriverClientClosed(c) ==
    /\ driver[c].pc = "run"
    /\ DriverSend(c, ToGame(c, "UnexpectedConnectionClose", <<>>, driver[c].game_loops,
                            "client_closed"), FALSE)
    /\ UNCHANGED <<ctrlVars, nsups, listener, super_q, asked_quit, nbots, ngames, engine,
                   joined, reports,
                   wireVars>>

\* handler/player.rs:176,210  a receive error outside the listed kinds, or a frame that
\* is not binary, panics the driver task
DriverPanic(c) ==
    /\ driver[c].pc = "run"
    /\ driver' = [driver EXCEPT ![c].pc = "panicked", ![c].how = "panic"]
    /\ UNCHANGED <<ctrlVars, nsups, listener, super_q, asked_quit, nbots, ngames, runner,
                   engine, joined, reports,
                   wireVars>>

\* handler/player.rs:312,360  merge_from_bytes(..).ok()? on a request or response that
\* does not parse: run returns None, nothing sent, nothing killed
DriverParseFailure(c) ==
    /\ driver[c].pc = "run"
    /\ driver' = [driver EXCEPT ![c].pc = "silent", ![c].how = "parse_failure"]
    /\ UNCHANGED <<ctrlVars, nsups, listener, super_q, asked_quit, nbots, ngames, runner,
                   engine, joined, reports,
                   wireVars>>

\* handler/player.rs:445-447  the surrender result vector, indexed by engine player id
SurrenderResults(player_id) ==
    [i \in 1 .. 2 |-> IF i = player_id THEN "Defeat" ELSE "Victory"]

\* handler/player.rs:322-325,445-456  leave_game: surrender = true, break, GameOver
DriverLeaveGame(c) ==
    /\ driver[c].pc = "run"
    /\ \E tv \in TagOrders(driver[c].tags) :
          DriverSend(c, GameOver(c, SurrenderResults(driver[c].player_id),
                                 driver[c].game_loops, "surrender", tv,
                                 driver[c].timing.frame_time), FALSE)
    /\ UNCHANGED <<ctrlVars, nsups, listener, super_q, asked_quit, nbots, ngames, engine,
                   joined, reports,
                   wireVars>>

\* the ids a client puts on its requests; a request may carry none
RequestIds == {NoneOpt, Some(1), Some(2)}

\* the non-terminal requests a client sends: what the bytes set of the request oneof
\* and of the optional id field
RequestBytes == [kind : {"debug", "step"}, id : RequestIds]

\* a game_info request
InfoRequest == [kind |-> "game_info", id |-> NoneOpt]

\* the races an engine reports in a player_info entry
RequestedRaces == {"Random", "Zerg"}
ActualRaces == {"Zerg", "Terran"}

\* the player_info lists of an engine's game_info response: one entry per player
PlayerInfos ==
    {<<[player_id |-> 1, race_requested |-> r1, race_actual |-> a1],
       [player_id |-> 2, race_requested |-> r2, race_actual |-> a2]>> :
        r1 \in RequestedRaces, a1 \in ActualRaces,
        r2 \in RequestedRaces, a2 \in ActualRaces}

\* what the engine answers to a forwarded request: for game_info a player_info list,
\* for any other request a response without one
EngineResponses(bytes) == IF bytes.kind = "game_info" THEN PlayerInfos ELSE {<<>>}

\* the rewriting with the comparison inverted: the driver's own entry is rewritten
ObfuscateOwn(info, own) ==
    [k \in DOMAIN info |->
        IF info[k].player_id = own
        THEN [info[k] EXCEPT !.race_actual = info[k].race_requested]
        ELSE info[k]]

\* handler/player.rs:362-369  every player_info entry of another player gets
\* race_actual = race_requested before the response is serialised again
ObfuscateRaces(info, own) ==
    [k \in DOMAIN info |->
        IF info[k].player_id # own
        THEN [info[k] EXCEPT !.race_actual = info[k].race_requested]
        ELSE info[k]]

\* protobuf accessor Request::id(): the field's value, 0 when it is not set
IdOf(o) == IF IsSome(o) THEN Unwrap(o) ELSE 0

\* handler/player.rs:310  self.request.merge_from_bytes(&req_raw): fields the bytes
\* set replace those of the held message, fields they do not set stay
MergeFromBytes(held, bytes) ==
    [kind |-> IF bytes.kind # None THEN bytes.kind ELSE held.kind,
     id |-> IF IsSome(bytes.id) THEN bytes.id ELSE held.id]

\* the encodings of a protobuf message on the wire: the one write_to_bytes produces,
\* and another that parses to the same message (fields in another order, unknown
\* fields, longer varints); bytes that are no message at all
Encodings == {"canonical", "padded"}
Garbage == "garbage"
RawBytes == [req : Encodings, resp : Encodings \cup {Garbage}]
CanonicalRaw == [req |-> "canonical", resp |-> "canonical"]

\* handler/player.rs:360  merge_from_bytes(&response_raw) succeeds
Parses(enc) == enc # Garbage

\* protobuf write_to_bytes: the canonical encoding of the parsed message
WriteToBytes == "canonical"

\* handler/player.rs:362-372  the bytes written to the client: the engine's own, or
\* for a game_info response the rewritten message serialised again
Relay(kind, enc) == IF kind = "game_info" THEN WriteToBytes ELSE enc

\* handler/player.rs:317  the request is answered by the proxy itself
DebugSuppressed(cfg, request) == cfg.disable_debug /\ request.kind = "debug"

\* handler/player.rs:309-321, 344-372, 441-443  one pass of the proxy loop for a
\* request that ends neither the game nor the connection: merge the bytes into
\* Player.request; a debug request under disable_debug is answered with
\* debug_response and the loop continues without clearing; any other request is
\* forwarded as received, the engine's response relayed, and the request cleared
DriverRequest(c, bytes, resp, elapsed, raw) ==
    /\ driver[c].pc = "run"
    /\ driver[c].proxy.nreq < MaxRequests
    /\ resp \in EngineResponses(bytes)
    /\ LET px == driver[c].proxy
           request == MergeFromBytes(px.request, bytes)
           suppressed == DebugSuppressed(DriverConfig(c), request)
       IN driver' = [driver EXCEPT
              ![c].timing.acc = Accumulate(c, elapsed),
              ![c].wire = IF suppressed THEN @ ELSE Sc2Query(@),
              ![c].pc = IF suppressed \/ Parses(raw.resp) THEN @ ELSE "silent",
              ![c].how = IF suppressed \/ Parses(raw.resp) THEN @ ELSE "parse_failure",
              ![c].proxy =
              IF suppressed
              THEN [request |-> request, nreq |-> px.nreq + 1, last_req |-> bytes,
                    to_client |-> Some([id |-> IdOf(request.id), status |-> "in_game",
                                        from |-> "proxy"]),
                    to_engine |-> px.to_engine,
                    info_received |-> px.info_received,
                    info_forwarded |-> px.info_forwarded,
                    raw |-> [from_client |-> raw.req, to_engine |-> None,
                             from_engine |-> None, to_client |-> WriteToBytes]]
              ELSE IF ~Parses(raw.resp)
              THEN [px EXCEPT !.request = request, !.nreq = @ + 1, !.last_req = bytes,
                              !.to_engine = Append(@, bytes),
                              !.raw = [from_client |-> raw.req, to_engine |-> raw.req,
                                       from_engine |-> raw.resp, to_client |-> None]]
              ELSE [request |-> EmptyRequest, nreq |-> px.nreq + 1, last_req |-> bytes,
                    raw |-> [from_client |-> raw.req, to_engine |-> raw.req,
                             from_engine |-> raw.resp,
                             to_client |-> Relay(bytes.kind, raw.resp)],
                    to_client |-> Some([id |-> IdOf(bytes.id), status |-> "in_game",
                                        from |-> "engine"]),
                    to_engine |-> Append(px.to_engine, bytes),
                    info_received |-> IF bytes.kind = "game_info"
                                      THEN resp ELSE px.info_received,
                    info_forwarded |-> IF bytes.kind = "game_info"
                                       THEN ObfuscateRaces(resp, driver[c].player_id)
                                       ELSE px.info_forwarded]]
    /\ UNCHANGED <<ctrlVars, nsups, listener, super_q, asked_quit, nbots, ngames, engine,
                   joined, reports, runner,
                   wireVars>>

\* a chat message, held as its characters, and the prefix that marks a tag
TagPrefix == <<"T", "a", "g", ":">>
ChatMessages ==
    {<<"T", "a", "g", ":", "a">>, <<"T", "a", "g", ":", "b">>, <<"g", "g">>,
     <<"x", "T", "a", "g", ":", "a">>}

\* str::contains and str::strip_prefix
Contains(msg, pat) ==
    \E k \in 0 .. (Len(msg) - Len(pat)) : SubSeq(msg, k + 1, k + Len(pat)) = pat
StripPrefix(msg, pat) ==
    IF Len(msg) >= Len(pat) /\ SubSeq(msg, 1, Len(pat)) = pat
    THEN Some(SubSeq(msg, Len(pat) + 1, Len(msg)))
    ELSE NoneOpt

\* handler/player.rs:326-343  the tag a chat message yields, if any
TagOf(msg) == IF Contains(msg, TagPrefix) THEN StripPrefix(msg, TagPrefix) ELSE NoneOpt

\* handler/player.rs:309-346,372-375,441-443  one pass of the proxy loop for an action
\* request carrying one chat message: its tag, if any, is inserted into the tag set,
\* the request is forwarded and the engine's response relayed
DriverChat(c, msg, elapsed) ==
    /\ driver[c].pc = "run"
    /\ Len(driver[c].chat) < MaxChats
    /\ driver' = [driver EXCEPT
           ![c].tags = IF IsSome(TagOf(msg)) THEN @ \cup {Unwrap(TagOf(msg))} ELSE @,
           ![c].chat = Append(@, msg),
           ![c].timing.acc = Accumulate(c, elapsed),
           ![c].wire = Sc2Query(@),
           ![c].proxy.request = EmptyRequest]
    /\ UNCHANGED <<ctrlVars, nsups, listener, super_q, asked_quit, nbots, ngames, engine,
                   joined, reports, runner,
                   wireVars>>

\* handler/player.rs:346-358  the engine socket is closed when the request is forwarded
DriverEngineClosed(c) ==
    /\ driver[c].pc = "run"
    /\ DriverSend(c, ToGame(c, "SC2UnexpectedConnectionClose", <<>>,
                            driver[c].game_loops, "engine_closed"), FALSE)
    /\ UNCHANGED <<ctrlVars, nsups, listener, super_q, asked_quit, nbots, ngames, engine,
                   joined, reports,
                   wireVars>>

\* handler/player.rs:376-388  the engine's response carries quit
DriverEngineQuit(c) ==
    /\ driver[c].pc = "run"
    /\ DriverSend(c, [ToGame(c, "QuitBeforeLeave", <<>>, driver[c].game_loops,
                             "engine_quit")
                        EXCEPT !.frame_time = NanToZero(Div(driver[c].timing.acc,
                                                            driver[c].game_loops))],
                  SaveReplayRequested(DriverConfig(c).replay_path))
    /\ UNCHANGED <<ctrlVars, nsups, listener, super_q, asked_quit, nbots, ngames, engine,
                   joined, reports,
                   wireVars>>

\* the player_result lists an observation can carry: empty, or one entry per engine
\* player id, in either order
ObsResults ==
    {<<>>} \cup
    {<<<<a, r[a]>>, <<3 - a, r[3 - a]>>>> :
        a \in 1 .. 2,
        r \in {<<"Victory", "Defeat">>, <<"Defeat", "Victory">>, <<"Tie", "Tie">>}}

\* handler/player.rs:403-408  results_by_id.sort(), then the results alone
SortedResults(obs) ==
    LET ord == CHOOSE f \in [1 .. Len(obs) -> 1 .. Len(obs)] :
                   /\ \A i, j \in 1 .. Len(obs) : i # j => f[i] # f[j]
                   /\ \A i, j \in 1 .. Len(obs) : i < j => obs[f[i]][1] <= obs[f[j]][1]
    IN [i \in 1 .. Len(obs) |-> obs[ord[i]][2]]

\* the max-game-time test with the limit itself counted as reached
MaxTimeReachedAtLimit(loop, cfg) == loop >= cfg.max_game_time

\* handler/player.rs:419  the max-game-time test on the observed loop
MaxTimeReached(loop, cfg) == loop > cfg.max_game_time

\* handler/player.rs:389-436  the engine's response carries an observation
DriverObservation(c, loop, obs, elapsed) ==
    /\ driver[c].pc = "run"
    /\ LET acc == driver[c].timing.acc
           ft == NanToZero(Div(acc, driver[c].game_loops))
       IN IF obs # <<>>
          THEN \E tv \in TagOrders(driver[c].tags) :
                  DriverSend(c, GameOver(c, SortedResults(obs), loop, "game_over", tv, ft),
                             FALSE)
          ELSE IF MaxTimeReached(loop, DriverConfig(c))
          THEN \E tv \in TagOrders(driver[c].tags) :
                  DriverSend(c, GameOver(c, <<"Tie", "Tie">>, loop, "max_time", tv,
                                         NanToZero(Div(acc, loop))),
                             SaveReplayRequested(DriverConfig(c).replay_path))
          ELSE /\ driver' = [driver EXCEPT ![c].game_loops = loop,
                                            ![c].proxy.request = EmptyRequest,
                                            ![c].wire = Sc2Query(@),
                                            ![c].timing = [acc |-> Accumulate(c, elapsed),
                                                           frame_time |-> ft]]
               /\ UNCHANGED runner
    /\ UNCHANGED <<ctrlVars, nsups, listener, super_q, asked_quit, nbots, ngames, engine,
                   joined, reports,
                   wireVars>>

\* handler/player.rs:355,387,415-416,434,454,462  after its send a terminal path kills
\* the engine (the game-over path saves the replay first) and run returns Some(self)
DriverKill(c) ==
    /\ driver[c].pc = "closing"
    /\ driver' = [driver EXCEPT
           ![c].pc = "exited",
           ![c].saved = IF driver[c].how = "game_over"
                        THEN SaveReplayRequested(DriverConfig(c).replay_path) ELSE @,
           ![c].wire = SaveReplay(@, driver[c].how = "game_over"
                                       /\ SaveReplayRequested(DriverConfig(c).replay_path))]
    /\ engine' = [engine EXCEPT ![c] = "killed"]
    /\ UNCHANGED <<ctrlVars, nsups, listener, super_q, asked_quit, nbots, ngames, runner,
                   joined, reports,
                   wireVars>>

\* --------------------------------------------------------------- controller
\* controller.rs:410-415  avg_hash: the frame_time of each Player the runner returned
\* (a driver that returned None is not among them), keyed by the player's name, in
\* the order the drivers were joined
\* controller.rs:416-447  the report update_games writes: Result and Bots are keyed by
\* the Player1 / Player2 names of the Controller's current config
RECURSIVE AverageFrameTime(_, _)
AverageFrameTime(g, k) ==
    IF k = 0 THEN EmptyMap
    ELSE LET p == runner[g].players[k]
             rest == AverageFrameTime(g, k - 1)
         IN IF driver[p.client].pc = "silent"
            THEN rest
            ELSE MapInsert(rest, p.name, driver[p.client].timing.frame_time)

JsonResult(result, cfg, sup, g) ==
    [sup |-> sup, game |-> g,
     AverageFrameTime |-> AverageFrameTime(g, Len(runner[g].players)),
     Result |-> MapInsert(MapInsert(EmptyMap, cfg.player1, result.player_results[1]),
                          cfg.player2, result.player_results[2]),
     GameTime |-> result.game_loops,
     Status |-> "Complete",
     Bots |-> <<cfg.player1, cfg.player2>>]

\* controller.rs:399-460, handler/mod.rs:48-83  update_games when Handle::check finds a
\* result or a disconnected result channel; an empty channel leaves the state as it is
UpdateGames ==
    /\ ctrl_pc = "running"
    /\ game # 0
    /\ \/ runner[game].result_ch # <<>>
       \/ ~RunnerAlive(game)
    /\ IF runner[game].result_ch # <<>>
       THEN LET result == Head(runner[game].result_ch)
            IN IF runner[game].pc = "done"
               THEN IF WriteFails
                    THEN /\ ctrl_pc' = "panicked"
                         /\ runner' = [runner EXCEPT ![game].result_ch = Tail(@)]
                         /\ game' = 0
                         /\ UNCHANGED <<reports, clients, supervisor, config, lobby,
                                        connected_clients>>
                    ELSE
                    /\ reports' = IF supervisor # 0
                                  THEN Append(reports, JsonResult(result, Unwrap(config),
                                                                  supervisor, game))
                                  ELSE reports
                    /\ runner' = [runner EXCEPT ![game].result_ch = Tail(@)]
                    /\ clients' = <<>>
                    /\ supervisor' = 0
                    /\ config' = NoneOpt
                    /\ lobby' = NoneOpt
                    /\ game' = 0
                    /\ connected_clients' = 0
                    /\ UNCHANGED ctrl_pc
               ELSE /\ ctrl_pc' = "panicked"
                    /\ runner' = [runner EXCEPT ![game].result_ch = Tail(@)]
                    /\ game' = 0
                    /\ UNCHANGED <<reports, clients, supervisor, config, lobby,
                                   connected_clients>>
       ELSE /\ game' = 0
            /\ UNCHANGED <<reports, runner, clients, supervisor, config, lobby,
                           connected_clients, ctrl_pc>>
    /\ UNCHANGED <<nsups, listener, super_q, asked_quit, light_mode, nbots, ngames,
                   driver, engine, joined, wireVars>>

\* handler/lobby.rs:202-208  GameLobby::close kills the engines of the worker handles
LobbyCloseKills(lob) == {lob.player_handles[k].client : k \in 1 .. Len(lob.player_handles)}

\* controller.rs:116-127  send_pong: the payload of the pong frame
PongPayload == <<0>>

\* handler/mod.rs:43-45  Handle::send panics once the runner has dropped its receiver
CloseSendFails == game # 0 /\ ~RunnerAlive(game)

\* server.rs:66-84, controller.rs:211-230,522-540  one supervisor event consumed:
\* Quit runs close(), replies Reset and drops the supervisor; Config stores the config;
\* and acknowledges it; ForceQuit leaves the loop; Ping is answered by send_pong;
\* Received changes nothing. A reply on a vanished supervisor socket unwinds the loop
RecvMsg ==
    /\ ctrl_pc = "running"
    /\ supervisor # 0
    /\ super_q # <<>>
    /\ super_q' = Tail(super_q)
    /\ LET action == Head(super_q)
       IN CASE action.type = "Quit" ->
                 IF CloseSendFails
                 THEN /\ ctrl_pc' = "panicked"
                      /\ UNCHANGED <<supervisor, config, light_mode, clients,
                                     connected_clients, lobby, game, runner, engine,
                                     pongs>>
                 ELSE /\ runner' = IF game # 0
                                   THEN [runner EXCEPT ![game].from_sv = @ + 1]
                                   ELSE runner
                      /\ engine' = [c \in BotIds |->
                                      IF IsSome(lobby) /\ c \in LobbyCloseKills(Unwrap(lobby))
                                      THEN "killed" ELSE engine[c]]
                      /\ clients' = <<>>
                      /\ config' = NoneOpt
                      /\ lobby' = NoneOpt
                      /\ game' = 0
                      /\ connected_clients' = 0
                      /\ supervisor' = IF WriteFails THEN supervisor ELSE 0
                      /\ ctrl_pc' = IF WriteFails THEN "panicked" ELSE ctrl_pc
                      /\ UNCHANGED <<light_mode, pongs>>
            [] action.type = "Config" ->
                 /\ config' = action.config
                 /\ light_mode' = Unwrap(action.config).light_mode
                 /\ ctrl_pc' = IF WriteFails THEN "panicked" ELSE ctrl_pc
                 /\ UNCHANGED <<supervisor, clients, connected_clients, lobby,
                                game, runner, engine, pongs>>
            [] action.type = "ForceQuit" ->
                 /\ ctrl_pc' = "stopped"
                 /\ UNCHANGED <<supervisor, config, light_mode, clients,
                                connected_clients, lobby, game, runner, engine, pongs>>
            [] action.type = "Ping" ->
                 /\ ctrl_pc' = IF WriteFails THEN "panicked" ELSE ctrl_pc
                 /\ pongs' = IF WriteFails THEN pongs ELSE Append(pongs, PongPayload)
                 /\ UNCHANGED <<supervisor, config, light_mode, clients,
                                connected_clients, lobby, game, runner, engine>>
            [] action.type = "Received" ->
                 UNCHANGED <<ctrl_pc, supervisor, config, light_mode, clients,
                             connected_clients, lobby, game, runner, engine, pongs>>
    /\ UNCHANGED <<nsups, listener, asked_quit, nbots, ngames, driver, joined, reports,
                   pings, sup_broken, acceptor, handshake>>

\* ---------------------------------------------------------- specification
\* the supervisor of one match: it sends a config, whose Player1 is bot A, while the
\* Controller holds none, and may send Reset or Quit at any time
MatchFrames ==
    {f \in SupervisorFrames :
        \/ f.kind \in {"Reset", "Quit"}
        \/ f.kind = "Map" /\ Unwrap(f.config).player1 = "A"
                          /\ ~Unwrap(f.config).disable_debug
                          /\ NoRaces(Unwrap(f.config))}

\* a supervisor that sends its config only while the Controller holds none and none
\* is on its way
FirstConfig(f) ==
    f.kind = "Map" =>
        config = NoneOpt /\ \A k \in DOMAIN super_q : super_q[k].type # "Config"

Next ==
    \/ nsups < MatchSups /\ SupervisorConnect
    \/ \E dbg \in BOOLEAN : nbots < MatchBots /\ BotConnect(dbg)
    \/ \E s \in SupIds, frame \in MatchFrames : FirstConfig(frame) /\ SupervisorSend(s, frame)
    \/ RecvMsg
    \/ \E i \in 1 .. 2, msg \in {"quit", "ping", "kick", "closed"} : PlaylistMessage(i, msg)
    \/ \E i \in 1 .. 2, hs \in Handshakes : ClientJoinGame(i, hs, TerranJoin)
    \/ UpdateGames
    \/ \E g \in GameIds : RunnerRecv(g)
    \/ \E g \in GameIds : RunnerQuit(g)
    \/ \E g \in GameIds : RunnerChannelClosed(g)
    \/ \E g \in GameIds : RunnerJoin(g)
    \/ \E c \in BotIds : DriverClientClosed(c)
    \/ \E c \in BotIds : DriverPanic(c)
    \/ \E c \in BotIds : DriverParseFailure(c)
    \/ \E c \in BotIds : DriverLeaveGame(c)
    \/ \E c \in BotIds : DriverEngineClosed(c)
    \/ \E c \in BotIds : DriverEngineQuit(c)
    \/ \E c \in BotIds, loop \in Loops, obs \in ObsResults : DriverObservation(c, loop, obs, 0)
    \/ \E c \in BotIds : DriverKill(c)

Spec == Init /\ [][Next]_vars

\* the threads the program schedules by itself: the Controller's tick, each game
\* runner, and each driver's exit sequence; a driver waiting on its client is ended by
\* the per-frame timeout (handler/player.rs:311)
RunnerStep(g) == RunnerRecv(g) \/ RunnerQuit(g) \/ RunnerChannelClosed(g) \/ RunnerJoin(g)

FairSpec ==
    /\ Spec
    /\ WF_vars(RecvMsg)
    /\ WF_vars(UpdateGames)
    /\ \A g \in GameIds : WF_vars(RunnerStep(g))
    /\ \A c \in BotIds : WF_vars(DriverKill(c))
    /\ \A c \in BotIds : WF_vars(DriverClientClosed(c))

\* ------------------------------------------------------------------ claims
\* the report entries of a match, by lobby index
NameAt(g, i) == runner[g].players[i].name
ResultAt(r, i) == r.Result[NameAt(r.game, i)]
FirstLogged(g) == runner[g].log[1]
ReportedGames == {reports[k].game : k \in DOMAIN reports}
DistinctNames(g) == NameAt(g, 1) # NameAt(g, 2)
ReportOf(g) == reports[CHOOSE k \in DOMAIN reports : reports[k].game = g]

\* C1: once two clients of a supervisor's match have issued join_game, and as long as
\* that supervisor sends neither Reset nor Quit, a result report is eventually sent to it
C1_ReportEventuallySent ==
    \A s \in SupIds :
        (joined[s] >= 2 /\ s \notin asked_quit)
            ~> (s \in asked_quit \/ \E k \in DOMAIN reports : reports[k].sup = s)

\* C2: when the result of a match is reported, the engines of both its players have
\* been killed
C2_EnginesKilledBeforeReport ==
    \A g \in ReportedGames :
        \A i \in 1 .. 2 : engine[runner[g].players[i].client] = "killed"

\* C3: a step that consumes the supervisor's Quit or ForceQuit event leaves no spawned
\* engine running
C3_QuitKillsEngines ==
    [][(/\ ctrl_pc = "running" /\ supervisor # 0 /\ super_q # <<>>
        /\ super_q' = Tail(super_q)
        /\ Head(super_q).type \in {"Quit", "ForceQuit"})
          => \A c \in BotIds : engine[c] = "running" => engine'[c] = "killed"]_vars

\* C4: the join that completes the lobby and whose handshake fails leaves every spawned
\* engine killed and the Controller reset
C4_FailedStartResets ==
    [][(IsSome(lobby) /\ joined' # joined /\ ngames' = ngames)
          => /\ \A c \in BotIds : engine'[c] # "running"
             /\ clients' = <<>> /\ config' = NoneOpt /\ lobby' = NoneOpt
             /\ game' = 0 /\ connected_clients' = 0]_vars

\* C5: when the first thing the runner records is a client disconnect of player i, and
\* the peer's driver ends in no crash of its own, the report is Crash for i and Victory
\* for the peer (bots of distinct names)
C5_DisconnectCrashPeerVictory ==
    \A g \in ReportedGames :
        LET first == FirstLogged(g)
            peer == 3 - first.idx
        IN (/\ DistinctNames(g)
            /\ first.why = "client_closed"
            /\ driver[runner[g].players[peer].client].how
                   \in {"surrender", "engine_quit", "game_over", "max_time"})
              => /\ ResultAt(ReportOf(g), first.idx) = "Crash"
                 /\ ResultAt(ReportOf(g), peer) = "Victory"

\* C6: when the runner has processed a client disconnect of each player, both players
\* are reported as Crash (bots of distinct names)
C6_BothDisconnectBothCrash ==
    \A g \in ReportedGames :
        (/\ DistinctNames(g)
         /\ Len(runner[g].log) = 2
         /\ \A k \in 1 .. 2 : runner[g].log[k].content = "UnexpectedConnectionClose")
           => \A i \in 1 .. 2 : ResultAt(ReportOf(g), i) = "Crash"

\* C7: when the first thing the runner records is the closed engine socket of player i,
\* the report is SC2Crash for i and Victory for the peer (bots of distinct names)
C7_EngineCloseSC2CrashPeerVictory ==
    \A g \in ReportedGames :
        LET first == FirstLogged(g)
        IN (DistinctNames(g) /\ first.why = "engine_closed")
              => /\ ResultAt(ReportOf(g), first.idx) = "SC2Crash"
                 /\ ResultAt(ReportOf(g), 3 - first.idx) = "Victory"

\* C8: when the first thing the runner records is the surrender of player i, the report
\* maps i's bot name to Defeat and the other bot name to Victory (bots of distinct names)
C8_SurrenderDefeatPeerVictory ==
    \A g \in ReportedGames :
        LET first == FirstLogged(g)
        IN (DistinctNames(g) /\ first.why = "surrender")
              => /\ ResultAt(ReportOf(g), first.idx) = "Defeat"
                 /\ ResultAt(ReportOf(g), 3 - first.idx) = "Victory"

\* C9: a driver that ended on leave_game has requested a replay save before its final
\* GameOver exactly when ReplayPath is not empty
C9_SurrenderSavesReplay ==
    \A c \in BotIds :
        driver[c].how = "surrender"
            => (driver[c].saved <=> DriverConfig(c).replay_path # "")

ConsumesEvent(types) ==
    /\ ctrl_pc = "running" /\ supervisor # 0 /\ super_q # <<>>
    /\ super_q' = Tail(super_q)
    /\ Head(super_q).type \in types

\* C11: every step that consumes the supervisor's Quit event tears down lobby and game
\* without panicking and drops the supervisor
C11_QuitTearsDownWithoutPanic ==
    [][ConsumesEvent({"Quit"})
          => /\ ctrl_pc' = "running"
             /\ lobby' = NoneOpt /\ game' = 0 /\ supervisor' = 0]_vars

\* C12: a step in which the runner takes Quit from the supervisor channel, with a result
\* slot still empty, does not end the runner in a panic
C12_RunnerQuitReturns ==
    [][\A g \in GameIds :
          (/\ runner[g].pc = "loop"
           /\ \E i \in 1 .. 2 : runner[g].player_results[i] = None
           /\ runner'[g].from_sv < runner[g].from_sv)
             => runner'[g].pc # "panicked"]_vars

\* the server before any client joins: connections, supervisor frames of every kind at
\* any time, vanishing sockets, a failing acceptor, the playlist
ServerFrames ==
    {f \in SupervisorFrames :
        f.kind = "Map" => (/\ Unwrap(f.config).player1 = "A"
                           /\ Unwrap(f.config).player2 = "B"
                           /\ ~Unwrap(f.config).disable_debug
                           /\ NoRaces(Unwrap(f.config)))}

ServerNext ==
    \/ nsups < MatchSups /\ SupervisorConnect
    \/ \E dbg \in BOOLEAN : nbots < MatchBots /\ BotConnect(dbg)
    \/ \E s \in SupIds, frame \in ServerFrames : SupervisorSend(s, frame)
    \/ \E s \in SupIds : SupervisorVanish(s)
    \/ \E s \in SupIds, kind \in ReadErrors : ListenerError(s, kind)
    \/ \E err \in AcceptFailures : AcceptorFails(err)
    \/ ProxyDisconnected
    \/ RecvMsg
    \/ \E i \in BotIds, msg \in {"quit", "ping", "kick", "closed"} : PlaylistMessage(i, msg)

ServerSpec == Init /\ [][ServerNext]_vars

\* C13: the k-th pong written to the supervisor carries the payload of the k-th ping
\* the listener read
C13_PongEchoesPing ==
    \A k \in DOMAIN pongs : k \in DOMAIN pings /\ pongs[k] = pings[k]

\* C14: a step in which the main loop answers a supervisor event (config
\* acknowledgement, Reset reply, pong) on a vanished supervisor socket leaves the main
\* loop running
C14_WriteFailureIsSurvived ==
    [][(WriteFails /\ ConsumesEvent({"Config", "Quit", "Ping"}))
          => ctrl_pc' = "running"]_vars

\* C15: whatever the acceptor has met so far (a failed opening handshake, an accept
\* error), while the main loop serves, a further bot connection can still be accepted
\* and delivered to the controller
C15_AcceptorKeepsAccepting ==
    (ctrl_pc = "running" /\ nbots < MaxBots)
        => ENABLED (\E dbg \in BOOLEAN : BotConnect(dbg))

\* enrollment and joins under a supervisor that may send a config at any time, with
\* any pair of bot names, and Reset; what happens inside a started match is left out
EnrollFrames ==
    {f \in SupervisorFrames :
        \/ f.kind = "Reset"
        \/ f.kind = "Map" /\ Unwrap(f.config).replay_path = ""
                          /\ ~Unwrap(f.config).light_mode
                          /\ ~Unwrap(f.config).disable_debug
                          /\ NoRaces(Unwrap(f.config))}

\* the engines either complete the handshake or the first one closes its socket
EnrollHandshakes ==
    {hs \in Handshakes : hs.ids = <<1, 2>> /\ hs.outcome \in {"ok", "create_closed"}}

EnrollNext ==
    \/ nsups < MatchSups /\ SupervisorConnect
    \/ \E dbg \in BOOLEAN : BotConnect(dbg)
    \/ \E s \in SupIds, frame \in EnrollFrames : SupervisorSend(s, frame)
    \/ RecvMsg
    \/ \E i \in BotIds, msg \in {"quit", "ping", "kick", "closed"} : PlaylistMessage(i, msg)
    \/ \E i \in BotIds, hs \in EnrollHandshakes : ClientJoinGame(i, hs, TerranJoin)

EnrollSpec == Init /\ [][EnrollNext]_vars

\* the bot connections the controller holds enrolled: in the playlist, in the lobby,
\* and in the game whose Handle it holds
Enrolled ==
    Len(clients)
      + (IF IsSome(lobby)
         THEN Len(Unwrap(lobby).players) + Len(Unwrap(lobby).player_handles) ELSE 0)
      + (IF game # 0 THEN Len(runner[game].players) ELSE 0)

\* C16: at most two bot connections are enrolled at any time, counting the playlist
\* together with the lobby and the game
C16_AtMostTwoEnrolled == Enrolled <= 2

\* C17: a step that spawns a game spawns it with exactly two distinct clients, and not
\* while the game whose Handle the controller holds is still running
C17_GameStartsOnlyWithTwoAndAlone ==
    [][ngames' > ngames
          => /\ Len(runner'[ngames'].players) = 2
             /\ runner'[ngames'].players[1].client # runner'[ngames'].players[2].client
             /\ ~(game # 0 /\ RunnerAlive(game))]_vars

\* the step of update_clients that takes playlist entry i out for a join_game request
JoinTaken(i) ==
    /\ ctrl_pc = "running"
    /\ i \in DOMAIN clients
    /\ clients' = RemoveAt(clients, i)
    /\ super_q' = super_q
    /\ joined' # joined \/ ctrl_pc' = "panicked"

\* C18: a client joins under the player number it was enrolled with, and its join does
\* not fail for its name not matching the current config
C18_PlayerNumberFixedAtEnrollment ==
    [][\A i \in BotIds :
          JoinTaken(i)
             => /\ ctrl_pc' = "running"
                /\ PlayerNumOf(clients[i].name, Unwrap(config)) = clients[i].num]_vars

\* C19: the Result of every report has exactly two entries, keyed by the Player1 and
\* Player2 names of the config
C19_ResultHasTwoEntries ==
    \A k \in DOMAIN reports :
        /\ Cardinality(DOMAIN reports[k].Result) = 2
        /\ DOMAIN reports[k].Result = {reports[k].Bots[1], reports[k].Bots[2]}

\* the frames of a supervisor that configures one match between "A" and "B" without
\* replay, with or without the DisableDebug flag
ProxyFrames ==
    {f \in SupervisorFrames :
        /\ f.kind = "Map"
        /\ Unwrap(f.config).player1 = "A" /\ Unwrap(f.config).player2 = "B"
        /\ Unwrap(f.config).replay_path = "" /\ ~Unwrap(f.config).light_mode
        /\ NoRaces(Unwrap(f.config))}

\* one configured match whose clients send requests through their drivers until one
\* of them leaves the game
ProxyNext ==
    \/ nsups < MatchSups /\ SupervisorConnect
    \/ \E dbg \in BOOLEAN : nbots < MatchBots /\ BotConnect(dbg)
    \/ \E s \in SupIds, frame \in ProxyFrames : FirstConfig(frame) /\ SupervisorSend(s, frame)
    \/ RecvMsg
    \/ \E i \in 1 .. 2, hs \in Handshakes : hs.outcome = "ok" /\ ClientJoinGame(i, hs, TerranJoin)
    \/ \E c \in BotIds, bytes \in RequestBytes : DriverRequest(c, bytes, <<>>, 0, CanonicalRaw)
    \/ \E c \in BotIds : DriverLeaveGame(c)

ProxySpec == Init /\ [][ProxyNext]_vars

\* C20: with DisableDebug set, every debug request a client sends during the match is
\* answered by the proxy with a response carrying that request's id and status
\* in_game, nothing is forwarded to the engine for it, and the driver keeps running
C20_DebugSuppressed ==
    [][\A c \in BotIds :
          (/\ driver[c].pc = "run"
           /\ driver'[c].proxy.nreq = driver[c].proxy.nreq + 1
           /\ DriverConfig(c).disable_debug
           /\ driver'[c].proxy.last_req.kind = "debug")
          => /\ driver'[c].pc = "run"
             /\ driver'[c].proxy.to_engine = driver[c].proxy.to_engine
             /\ driver'[c].proxy.to_client =
                    Some([id |-> IdOf(driver'[c].proxy.last_req.id),
                          status |-> "in_game", from |-> "proxy"])]_vars

\* one configured match whose clients ask their drivers for the game info
InfoNext ==
    \/ nsups < MatchSups /\ SupervisorConnect
    \/ \E dbg \in BOOLEAN : nbots < MatchBots /\ BotConnect(dbg)
    \/ \E s \in SupIds, frame \in ProxyFrames :
          /\ ~Unwrap(frame.config).disable_debug /\ FirstConfig(frame)
          /\ SupervisorSend(s, frame)
    \/ RecvMsg
    \/ \E i \in 1 .. 2, hs \in Handshakes : hs.outcome = "ok" /\ ClientJoinGame(i, hs, TerranJoin)
    \/ \E c \in BotIds, resp \in PlayerInfos : DriverRequest(c, InfoRequest, resp, 0, CanonicalRaw)

InfoSpec == Init /\ [][InfoNext]_vars

\* C21: in every game_info response a driver forwards to its client, each
\* player_info entry of another player has race_actual equal to race_requested, and
\* the entry with the driver's own player id is the one the engine sent
C21_RaceObfuscation ==
    \A c \in BotIds :
        LET fw == driver[c].proxy.info_forwarded
            rc == driver[c].proxy.info_received
        IN /\ DOMAIN fw = DOMAIN rc
           /\ \A k \in DOMAIN fw :
                 /\ fw[k].player_id = rc[k].player_id
                 /\ fw[k].race_requested = rc[k].race_requested
                 /\ IF fw[k].player_id # driver[c].player_id
                    THEN fw[k].race_actual = fw[k].race_requested
                    ELSE fw[k] = rc[k]

\* a driver has forwarded a game_info response in which the engine reported, for the
\* opponent, an actual race different from the requested one, and for the driver's
\* own player as well
C21_Witness ==
    \E c \in BotIds :
        LET fw == driver[c].proxy.info_forwarded
            rc == driver[c].proxy.info_received
        IN /\ fw # <<>>
           /\ \A k \in DOMAIN rc : rc[k].race_actual # rc[k].race_requested
           /\ \E k \in DOMAIN fw : fw[k].player_id # driver[c].player_id /\ fw[k] # rc[k]

\* the configs of a supervisor that names bots A and B and sets ValidateRace and the
\* two race tokens freely
RaceFrames ==
    {f \in SupervisorFrames :
        /\ f.kind = "Map"
        /\ Unwrap(f.config).player1 = "A" /\ Unwrap(f.config).player2 = "B"
        /\ Unwrap(f.config).replay_path = "" /\ ~Unwrap(f.config).light_mode
        /\ ~Unwrap(f.config).disable_debug
        /\ Unwrap(f.config).player1_race \in {NoneOpt, Some(<<"z">>), Some(<<"P">>)}}

\* the configs such a supervisor may send while the Controller already holds one
ReplacementFrames ==
    {f \in RaceFrames :
        /\ Unwrap(f.config).player1_race \in {NoneOpt, Some(<<"z">>)}
        /\ Unwrap(f.config).player2_race = NoneOpt}

\* enrollment and lobby start under such a supervisor, with clients asking for any race
RaceNext ==
    \/ nsups < MatchSups /\ SupervisorConnect
    \/ \E dbg \in BOOLEAN : nbots < MatchBots /\ BotConnect(dbg)
    \/ \E s \in SupIds, frame \in RaceFrames : FirstConfig(frame) /\ SupervisorSend(s, frame)
    \/ \E s \in SupIds, frame \in ReplacementFrames :
          config # NoneOpt /\ SupervisorSend(s, frame)
    \/ RecvMsg
    \/ \E i \in 1 .. 2, hs \in Handshakes, req \in JoinRequests :
          hs.outcome = "ok" /\ ClientJoinGame(i, hs, req)

RaceSpec == Init /\ [][RaceNext]_vars

\* the join requests dispatched in the lobby start last made
JoinRequestsSent == {k \in DOMAIN handshake.log : handshake.log[k].ev = "join_req"}

TagNext ==
    \/ nsups < MatchSups /\ SupervisorConnect
    \/ \E dbg \in BOOLEAN : nbots < MatchBots /\ BotConnect(dbg)
    \/ \E s \in SupIds, frame \in ProxyFrames :
          /\ ~Unwrap(frame.config).disable_debug /\ FirstConfig(frame)
          /\ SupervisorSend(s, frame)
    \/ RecvMsg
    \/ \E i \in 1 .. 2, hs \in Handshakes :
          hs.outcome = "ok" /\ ClientJoinGame(i, hs, TerranJoin)
    \/ \E c \in BotIds, msg \in ChatMessages : DriverChat(c, msg, 0)
    \/ \E c \in BotIds : DriverLeaveGame(c)
    \/ \E c \in BotIds : DriverClientClosed(c)
    \/ \E g \in GameIds : RunnerRecv(g)

TagSpec == Init /\ [][TagNext]_vars

\* the suffixes of the chat messages that start with "Tag:", in the order sent
RECURSIVE TagSuffixes(_)
TagSuffixes(chat) ==
    IF chat = <<>> THEN <<>>
    ELSE LET m == Head(chat)
         IN (IF Len(m) >= 4 /\ SubSeq(m, 1, 4) = TagPrefix
             THEN <<SubSeq(m, 5, Len(m))>> ELSE <<>>) \o TagSuffixes(Tail(chat))

\* C23: once the runner has taken a player's final message, whichever kind it is, the
\* tags it holds for that player are the suffixes of the player's "Tag:" chat
\* messages in the order they were sent
C23_TagsInOrderOnEveryEnding ==
    \A g \in GameIds : \A k \in DOMAIN runner[g].log :
        LET idx == runner[g].log[k].idx
            c == runner[g].players[idx].client
        IN runner[g].tags[idx] = TagSuffixes(driver[c].chat)

\* the frames of a supervisor that configures one match and may ask for a reset
BlockFrames ==
    {f \in SupervisorFrames :
        \/ f.kind = "Reset"
        \/ /\ f.kind = "Map"
           /\ Unwrap(f.config).player1 = "A" /\ Unwrap(f.config).player2 = "B"
           /\ Unwrap(f.config).replay_path = "" /\ ~Unwrap(f.config).disable_debug
           /\ NoRaces(Unwrap(f.config))}

\* enrollment and lobby start with engines that answer, fail, or stay silent
BlockNext ==
    \/ nsups < MatchSups /\ SupervisorConnect
    \/ \E dbg \in BOOLEAN : nbots < MatchBots /\ BotConnect(dbg)
    \/ \E s \in SupIds, frame \in BlockFrames : FirstConfig(frame) /\ SupervisorSend(s, frame)
    \/ RecvMsg
    \/ \E i \in 1 .. 2, hs \in Handshakes \cup SilentHandshakes :
          ClientJoinGame(i, hs, TerranJoin)

\* the main loop's tick is scheduled again and again (server.rs:44-89: loop with a
\* 100 ms sleep); nothing is assumed of engines and clients
BlockSpec == Init /\ [][BlockNext]_vars /\ WF_vars(RecvMsg)

\* a supervisor event is queued for a main loop that has neither ended nor panicked
EventPending ==
    super_q # <<>> /\ supervisor # 0 /\ ctrl_pc \in {"running", "blocked"}

\* C24: the main loop never waits for a client or an engine, so a pending supervisor
\* event is consumed (or the loop has ended) after finitely many ticks
C24_PendingEventConsumed ==
    EventPending ~> (super_q = <<>> \/ ctrl_pc \in {"panicked", "stopped"})

\* C25: whenever the supervisor listener emits ForceQuit (for the text Quit or for a
\* transport error), the listener exits with that emission, so that it can emit
\* nothing afterwards
C25_ForceQuitEndsListener ==
    [][(/\ Len(super_q') = Len(super_q) + 1
        /\ super_q'[Len(super_q')].type = "ForceQuit")
       => \E s \in SupIds : listener[s] = "running" /\ listener'[s] = "ended"]_vars

\* the configs of a supervisor that writes any race token for either slot
TokenFrames ==
    {f \in SupervisorFrames :
        /\ f.kind = "Map"
        /\ Unwrap(f.config).player1 = "A" /\ Unwrap(f.config).player2 = "B"
        /\ Unwrap(f.config).replay_path = "" /\ ~Unwrap(f.config).light_mode
        /\ ~Unwrap(f.config).disable_debug /\ Unwrap(f.config).validate_race}

\* enrollment under such a config: each bot is enrolled with the race its slot's token
\* maps to
TokenNext ==
    \/ nsups < MatchSups /\ SupervisorConnect
    \/ \E s \in SupIds, frame \in TokenFrames : FirstConfig(frame) /\ SupervisorSend(s, frame)
    \/ RecvMsg
    \/ \E dbg \in BOOLEAN : nbots < MatchBots /\ BotConnect(dbg)

TokenSpec == Init /\ [][TokenNext]_vars

\* the token of the slot a playlist entry was enrolled in
SlotToken(cl) ==
    IF cl.num = 1 THEN Unwrap(config).player1_race ELSE Unwrap(config).player2_race

\* C26: the race a token maps to is Protoss, Terran, Zerg or Random for the accepted
\* spellings of that race in any casing, and Random for every other token
C26_TokenMapping ==
    \A i \in DOMAIN clients :
        IsSome(SlotToken(clients[i])) =>
            LET t == Unwrap(SlotToken(clients[i]))
            IN clients[i].race =
                  Some(CASE t \in ProtossTokens -> "Protoss"
                         [] t \in TerranTokens -> "Terran"
                         [] t \in ZergTokens -> "Zerg"
                         [] t \in RandomTokens -> "Random"
                         [] OTHER -> "Random")

\* two bots are enrolled, the first under the token "ZERG" as Zerg and the second
\* under the token "x" as Random
C26_Witness ==
    /\ Len(clients) = 2
    /\ SlotToken(clients[1]) = Some(<<"Z", "E", "R", "G">>)
    /\ clients[1].race = Some("Zerg")
    /\ SlotToken(clients[2]) = Some(<<"x">>)
    /\ clients[2].race = Some("Random")

\* one configured match whose clients take measurable time between requests, up to
\* the report
TimeNext ==
    \/ nsups < MatchSups /\ SupervisorConnect
    \/ \E dbg \in BOOLEAN : nbots < MatchBots /\ BotConnect(dbg)
    \/ \E s \in SupIds, frame \in ProxyFrames :
          /\ ~Unwrap(frame.config).disable_debug /\ FirstConfig(frame)
          /\ SupervisorSend(s, frame)
    \/ RecvMsg
    \/ \E i \in 1 .. 2, hs \in Handshakes :
          hs.outcome = "ok" /\ hs.ids = <<1, 2>> /\ ClientJoinGame(i, hs, TerranJoin)
    \/ \E c \in BotIds, e \in Elapsed :
          DriverRequest(c, [kind |-> "step", id |-> NoneOpt], <<>>, e, CanonicalRaw)
    \/ \E c \in BotIds, loop \in Loops, obs \in ObsResults, e \in Elapsed :
          DriverObservation(c, loop, obs, e)
    \/ \E c \in BotIds : DriverEngineQuit(c)
    \/ \E c \in BotIds : DriverKill(c)
    \/ \E g \in GameIds : RunnerRecv(g)
    \/ \E g \in GameIds : RunnerJoin(g)
    \/ UpdateGames

TimeSpec == Init /\ [][TimeNext]_vars

\* C27: every AverageFrameTime in a report is a finite, non-negative number
C27_FrameTimeFinite ==
    \A k \in DOMAIN reports :
        \A n \in DOMAIN reports[k].AverageFrameTime :
            reports[k].AverageFrameTime[n] \in {"zero", "pos"}

\* the configs of a supervisor that names bot A as Player1 and bot B as Player2, with
\* LightMode set or not
OrderFrames ==
    {f \in SupervisorFrames :
        /\ f.kind = "Map"
        /\ Unwrap(f.config).player1 = "A" /\ Unwrap(f.config).player2 = "B"
        /\ Unwrap(f.config).replay_path = "" /\ ~Unwrap(f.config).disable_debug
        /\ NoRaces(Unwrap(f.config))}

\* enrollment, the playlist and the joins under one such config, up to the lobby start
OrderNext ==
    \/ nsups < MatchSups /\ SupervisorConnect
    \/ \E dbg \in BOOLEAN : BotConnect(dbg)
    \/ \E s \in SupIds, frame \in OrderFrames : FirstConfig(frame) /\ SupervisorSend(s, frame)
    \/ RecvMsg
    \/ \E i \in BotIds, msg \in {"quit", "ping", "kick", "closed"} : PlaylistMessage(i, msg)
    \/ \E i \in BotIds, hs \in Handshakes :
          hs.outcome = "ok" /\ hs.ids = <<1, 2>> /\ ClientJoinGame(i, hs, TerranJoin)

OrderSpec == Init /\ [][OrderNext]_vars

\* C28: when the lobby starts the handshake, the player enrolled as Player1 is at its
\* first index and the player enrolled as Player2 at its second
C28_LobbyOrderByEnrollment ==
    handshake.players # <<>> =>
        /\ Len(handshake.players) = 2
        /\ handshake.players[1].enrolled = 1
        /\ handshake.players[2].enrolled = 2

\* the positions in the last lobby start's history of the events of one kind
Events(ev) == {k \in DOMAIN handshake.log : handshake.log[k].ev = ev}

\* C29: when the lobby reads a join response, the join request has already been sent
\* to every player's engine, and the join responses are read in lobby order
C29_JoinRequestsBeforeResponses ==
    \A a \in Events("join_resp") :
        /\ \A p \in DOMAIN handshake.players :
              \E r \in Events("join_req") : r < a /\ handshake.log[r].at = p
        /\ \A b \in Events("join_resp") :
              b < a => handshake.log[b].at < handshake.log[a].at

\* both engines' join responses have been read
C29_Witness ==
    /\ Len(handshake.players) = 2
    /\ \E a, b \in Events("join_resp") : handshake.log[a].at = 1 /\ handshake.log[b].at = 2

WireFrames ==
    {f \in SupervisorFrames :
        /\ f.kind = "Map"
        /\ Unwrap(f.config).player1 = "A" /\ Unwrap(f.config).player2 = "B"
        /\ ~Unwrap(f.config).light_mode /\ ~Unwrap(f.config).disable_debug
        /\ NoRaces(Unwrap(f.config))}

\* one configured match seen from the engine sockets: the lobby handshake with any
\* outcome, the proxy loop, and every ending that saves a replay
WireNext ==
    \/ nsups < MatchSups /\ SupervisorConnect
    \/ \E dbg \in BOOLEAN : nbots < MatchBots /\ BotConnect(dbg)
    \/ \E s \in SupIds, frame \in WireFrames : FirstConfig(frame) /\ SupervisorSend(s, frame)
    \/ RecvMsg
    \/ \E i \in 1 .. 2, hs \in Handshakes :
          hs.ids = <<1, 2>> /\ ClientJoinGame(i, hs, TerranJoin)
    \/ \E c \in BotIds, bytes \in {[kind |-> "step", id |-> NoneOpt], InfoRequest},
             raw \in RawBytes :
          \E resp \in {r \in EngineResponses(bytes) :
                           bytes.kind = "game_info" =>
                               \A k \in DOMAIN r : r[k].race_requested = "Random"
                                                     /\ r[k].race_actual = "Zerg"} :
             DriverRequest(c, bytes, resp, 0, raw)
    \/ \E c \in BotIds, loop \in Loops, obs \in {<<>>, <<<<1, "Tie">>, <<2, "Tie">>>>} :
          DriverObservation(c, loop, obs, 0)
    \/ \E c \in BotIds : DriverEngineQuit(c)
    \/ \E c \in BotIds : DriverEngineClosed(c)
    \/ \E c \in BotIds : DriverLeaveGame(c)
    \/ \E c \in BotIds : DriverKill(c)

WireSpec == Init /\ [][WireNext]_vars

\* C31: on every player's engine socket at most one request is unanswered at any
\* time, across the lobby handshake, the proxy loop and replay saving
C31_OneRequestOutstanding ==
    /\ \A c \in BotIds : driver[c].wire.peak <= 1
    /\ \A k \in DOMAIN handshake.players :
          WireOf(handshake.log, k, Len(handshake.log)).peak <= 1

\* a driver that went through the handshake, forwarded a request and saved the replay
C31_Witness ==
    \E c \in BotIds :
        /\ driver[c].pc = "exited"
        /\ driver[c].saved
        /\ driver[c].proxy.to_engine # <<>>
        /\ driver[c].wire.peak = 1

\* C32: a request the driver forwards is written to the engine as the bytes the
\* client sent, and an engine response that is no game_info reply is written to the
\* client as the bytes the engine sent; a game_info reply is encoded again
C32_BytesRelayedUnchanged ==
    \A c \in BotIds :
        LET px == driver[c].proxy
        IN /\ px.raw.to_engine # None => px.raw.to_engine = px.raw.from_client
           /\ px.raw.from_engine # None =>
                 px.raw.to_client = IF px.last_req.kind = "game_info"
                                    THEN WriteToBytes ELSE px.raw.from_engine

\* the same for the responses that parse
C32_ParsedBytesRelayedUnchanged ==
    \A c \in BotIds :
        LET px == driver[c].proxy
        IN /\ px.raw.to_engine # None => px.raw.to_engine = px.raw.from_client
           /\ px.raw.from_engine \notin {None, Garbage} =>
                 px.raw.to_client = IF px.last_req.kind = "game_info"
                                    THEN WriteToBytes ELSE px.raw.from_engine

\* a response in another encoding than the canonical one was relayed as it came
C32_PaddedRelayed ==
    \E c \in BotIds :
        /\ driver[c].proxy.raw.from_engine = "padded"
        /\ driver[c].proxy.raw.to_client = "padded"

\* both driver tasks of game g have ended
DriversTerminated(g) ==
    /\ runner[g].pc # "none"
    /\ \A k \in 1 .. 2 : Terminated(runner[g].players[k].client)

\* C33: the runner sends the Normal result only with every result slot filled and
\* both driver tasks ended, and once both driver tasks have ended it does send it
C33_NormalResultAfterDrivers ==
    /\ [](\A g \in GameIds :
             runner[g].pc = "done" =>
                 /\ \A i \in 1 .. 2 : runner[g].player_results[i] # None
                 /\ DriversTerminated(g))
    /\ \A g \in GameIds : DriversTerminated(g) ~> runner[g].pc = "done"

\* the messages driver c has put on its runner's channel: those waiting and those read
MessagesFrom(c) ==
    LET g == driver[c].game
    IN Cardinality({k \in DOMAIN runner[g].rx :
                        runner[g].rx[k].player_index = driver[c].idx})
         + Cardinality({k \in DOMAIN runner[g].log : runner[g].log[k].idx = driver[c].idx})

\* C34: a driver task that has ended has sent exactly one message to its runner and
\* its engine has been killed
C34_NoSilentEnding ==
    \A c \in BotIds :
        Terminated(c) => MessagesFrom(c) = 1 /\ engine[c] = "killed"

\* C35: a result slot that has been set is not changed by any later step
C35_ResultSlotWriteOnce ==
    [][\A g \in GameIds, i \in 1 .. 2 :
          runner[g].player_results[i] # None
              => runner'[g].player_results[i] = runner[g].player_results[i]]_vars

\* a GameOver naming player 1 the winner was processed after player 1's own
\* disconnect had been recorded, and the slot still says Crash
C35_Witness ==
    \E g \in GameIds :
        /\ Len(runner[g].log) = 2
        /\ runner[g].log[1].idx = 1 /\ runner[g].log[1].content = "UnexpectedConnectionClose"
        /\ runner[g].log[2].idx = 2 /\ runner[g].log[2].content = "GameOver"
        /\ runner[g].log[2].why = "surrender"
        /\ runner[g].player_results = <<"Crash", "Defeat">>

\* C36: a lobby start that has passed a join response to any client has read an
\* error-free join response from every player's engine
C36_JoinAllOrNothing ==
    handshake.to_clients # {} =>
        /\ \A k \in DOMAIN handshake.players :
              \E r \in Events("join_resp") : handshake.log[r].at = k
        /\ \A r \in Events("join_resp") : ~handshake.log[r].error

\* the clients of the match being assembled that hold the identity of player n: in
\* the playlist or already in the lobby
EnrolledAs(n) ==
    Cardinality({i \in DOMAIN clients : clients[i].num = n})
      + (IF IsSome(lobby)
         THEN Cardinality({k \in DOMAIN Unwrap(lobby).players :
                              Unwrap(lobby).players[k].enrolled = n})
         ELSE 0)

\* C37: at most one client is enrolled as player 1 and at most one as player 2
C37_OneClientPerPlayerNumber == EnrolledAs(1) <= 1 /\ EnrolledAs(2) <= 1

\* the frames of supervisors that take over from one another
HandoverFrames ==
    {f \in SupervisorFrames :
        \/ f.kind \in {"Reset", "Quit"}
        \/ f.kind = "Map" /\ Unwrap(f.config).player1 = "A" /\ Unwrap(f.config).player2 = "B"
                          /\ Unwrap(f.config).replay_path = ""
                          /\ ~Unwrap(f.config).light_mode
                          /\ ~Unwrap(f.config).disable_debug
                          /\ ~Unwrap(f.config).validate_race
                          /\ NoRaces(Unwrap(f.config))}

\* a supervisor connects while an earlier one is still bound or after it was dropped;
\* each listener goes on reading its own socket
HandoverNext ==
    \/ SupervisorConnect
    \/ \E dbg \in BOOLEAN : nbots < MatchBots /\ BotConnect(dbg)
    \/ \E s \in SupIds, frame \in HandoverFrames : SupervisorSend(s, frame)
    \/ \E s \in SupIds : SupervisorVanish(s)
    \/ \E s \in SupIds, kind \in ReadErrors : ListenerError(s, kind)
    \/ RecvMsg
    \/ \E i \in 1 .. 2, hs \in Handshakes :
          hs.outcome = "ok" /\ hs.ids = <<1, 2>> /\ ClientJoinGame(i, hs, TerranJoin)

HandoverSpec == Init /\ [][HandoverNext]_vars

\* C38: a step that acts on a Quit or ForceQuit event does so for a supervisor whose
\* own listener emitted one: the supervisor bound at that step sent Reset or Quit, or
\* its socket failed
C38_NoStaleSupervisorEvent ==
    [][ConsumesEvent({"Quit", "ForceQuit"})
          => supervisor \in asked_quit \cup sup_broken]_vars

\* C39: the driver of the player at lobby index i (idx = i + 1 here) holds the engine
\* player id i + 1, so that vectors ordered by engine player id match the runner's
\* slots
C39_PlayerIdIsLobbyPosition ==
    \A c \in BotIds : driver[c].pc # "none" => driver[c].player_id = driver[c].idx

====
